---- MODULE Spec2Model ----
(***************************************************************************)
(* Model of main_script.py: the tile mosaicker (mosaic_year_tiles) and the *)
(* change accumulator / renderer (main).                                   *)
(*                                                                         *)
(* A grid is a record [h, w, a] with a a function over (1..h) \X (1..w).   *)
(* Year directory names are modelled by integers (four digit names sort    *)
(* as strings exactly as they sort as numbers).  Areas are kept in units   *)
(* of 1e-6 km2, so that pixel_area_km2 = 0.000350 is the integer 350.      *)
(* The affine transform mosaic_year_tiles returns is dropped: main never   *)
(* reads it.  Operators documented as "fault:" are seeded faults of the    *)
(* operator that follows them, used to show that a property depends on it. *)
(***************************************************************************)
EXTENDS Integers, Sequences, FiniteSets, TLC

\* ---- bounds of the model ----
\* at most MaxYears year directories
MaxYears == 4
\* width of the grids
W == 2
\* merged cell values range over -1..MaxVal
MaxVal == 2
\* at most MaxTiles .tif files in a directory
MaxTiles == 1
\* (cells of a grid) x (number of years) is at most MaxCellYears
MaxCellYears == 12

VARIABLES listing, years, pc, y_idx, year_arrays, i, previous_arr,
          cumulative_gains, cumulative_losses, gains, losses,
          total_gains_area, total_losses_area, frames, err,
          m_dir, m_pc, m_ret

vars == <<listing, years, pc, y_idx, year_arrays, i, previous_arr,
          cumulative_gains, cumulative_losses, gains, losses,
          total_gains_area, total_losses_area, frames, err,
          m_dir, m_pc, m_ret>>

mainVars == <<listing, years, pc, y_idx, year_arrays, i, previous_arr,
              cumulative_gains, cumulative_losses, gains, losses,
              total_gains_area, total_losses_area, frames, err>>

mosaicVars == <<m_dir, m_pc, m_ret>>

\* ---- grids ----
None == [h |-> 0, w |-> 0, a |-> [c \in {} |-> 0]]

Shape(g) == <<g.h, g.w>>

Cells(s) == (1..s[1]) \X (1..s[2])

\* a row, a row of another width, and a two-row grid the row broadcasts to
Shapes == {<<1, W>>, <<1, W + 1>>, <<2, W>>}

Vals == (0 - 1)..MaxVal

Grid(s, f) == [h |-> s[1], w |-> s[2], a |-> f]

ConstGrid(s, v) == [h |-> s[1], w |-> s[2], a |-> [c \in Cells(s) |-> v]]

\* number of true cells of a boolean mask (np.sum of a bool array)
np_sum(m) == Cardinality({c \in Cells(Shape(m)) : m.a[c]})

\* ---- the file system: what a year directory holds ----
\* tifs: how many *.tif files glob finds; merged: the (bands, H, W) array
\* rasterio's merge returns for them (a sequence of bands).
EmptyDir == [tifs |-> 0, merged |-> <<>>]

\* n files whose merge has first band Grid(s, f), alone or followed by a
\* second band
Dir(n, s, f, bands) ==
  [tifs |-> n,
   merged |-> IF bands = 1 THEN <<Grid(s, f)>>
              ELSE <<Grid(s, f), ConstGrid(s, MaxVal)>>]

\* ---- mosaic_year_tiles ----
\* fault: "any non-zero value" instead of "> 0"
np_where_ne0(v) == IF v # 0 THEN 1 ELSE 0

\* np.where(mosaic_arr > 0, 1, 0), cell by cell
np_where_gt0(v) == IF v > 0 THEN 1 ELSE 0

\* mosaic_arr[0]
first_band(merged) == merged[1]

\* fault: a single tile is treated as none
no_tif_files_lt2(d) == d.tifs < 2

\* "if not tif_files"
no_tif_files(d) == d.tifs = 0

mosaic_year_tiles(d) ==
  IF no_tif_files(d)
  THEN [raised |-> "FileNotFoundError", arr |-> None]
  ELSE LET mosaic_arr == first_band(d.merged)
       IN  [raised |-> "",
            arr |-> [h |-> mosaic_arr.h, w |-> mosaic_arr.w,
                     a |-> [c \in Cells(Shape(mosaic_arr)) |-> np_where_gt0(mosaic_arr.a[c])]]]

\* ---- main: helpers ----
\* fault: descending order
RECURSIVE sorted_desc(_)
sorted_desc(S) ==
  IF S = {} THEN <<>>
  ELSE LET m == CHOOSE x \in S : \A z \in S : x >= z
       IN  <<m>> \o sorted_desc(S \ {m})

\* sorted(...) of the directory names
RECURSIVE sorted(_)
sorted(S) ==
  IF S = {} THEN <<>>
  ELSE LET m == CHOOSE x \in S : \A z \in S : x <= z
       IN  <<m>> \o sorted(S \ {m})

\* numpy broadcasting of two 2-D shapes
Broadcastable(s, t) == \A k \in 1..2 : s[k] = t[k] \/ s[k] = 1 \/ t[k] = 1

BShape(s, t) == <<IF s[1] >= t[1] THEN s[1] ELSE t[1], IF s[2] >= t[2] THEN s[2] ELSE t[2]>>

BAt(g, c) == g.a[<<IF g.h = 1 THEN 1 ELSE c[1], IF g.w = 1 THEN 1 ELSE c[2]>>]

\* fault: the masks start as the first grid cast to bool
astype_bool(arr) ==
  [h |-> arr.h, w |-> arr.w, a |-> [c \in Cells(Shape(arr)) |-> arr.a[c] # 0]]

\* np.zeros_like(arr, dtype=bool)
zeros_like(arr) == ConstGrid(Shape(arr), FALSE)

\* fault: the test on the previous year is missing
gains_of_curr_only(prev, curr) ==
  LET s == BShape(Shape(prev), Shape(curr))
  IN  [h |-> s[1], w |-> s[2],
       a |-> [c \in Cells(s) |-> BAt(curr, c) = 1]]

\* (prev == 0) & (curr == 1), with numpy broadcasting
gains_of(prev, curr) ==
  LET s == BShape(Shape(prev), Shape(curr))
  IN  [h |-> s[1], w |-> s[2],
       a |-> [c \in Cells(s) |-> (BAt(prev, c) = 0) /\ (BAt(curr, c) = 1)]]

\* fault: the gains expression pasted for the losses
losses_of_pasted(prev, curr) ==
  LET s == BShape(Shape(prev), Shape(curr))
  IN  [h |-> s[1], w |-> s[2],
       a |-> [c \in Cells(s) |-> (BAt(prev, c) = 0) /\ (BAt(curr, c) = 1)]]

\* (prev == 1) & (curr == 0), with numpy broadcasting
losses_of(prev, curr) ==
  LET s == BShape(Shape(prev), Shape(curr))
  IN  [h |-> s[1], w |-> s[2],
       a |-> [c \in Cells(s) |-> (BAt(prev, c) = 1) /\ (BAt(curr, c) = 0)]]

\* fault: the mask of this year replaces the cumulative one
mask_overwrite(cum, mask) ==
  [h |-> cum.h, w |-> cum.w, a |-> [c \in Cells(Shape(cum)) |-> mask.a[c]]]

\* cum[mask] = True
mask_assign(cum, mask) ==
  [h |-> cum.h, w |-> cum.w, a |-> [c \in Cells(Shape(cum)) |-> cum.a[c] \/ mask.a[c]]]

Transparent == <<0, 0, 0, 0>>
Yellow == <<255, 255, 0, 255>>
Red == <<255, 0, 0, 255>>

\* fault: gains painted after losses
render_gains_last(s, cg, cl) ==
  LET zero == [c \in Cells(s) |-> Transparent]
      withLosses == [c \in Cells(s) |-> IF cl.a[c] THEN Red ELSE zero[c]]
      withGains == [c \in Cells(s) |-> IF cg.a[c] THEN Yellow ELSE withLosses[c]]
  IN  [h |-> s[1], w |-> s[2], a |-> withGains]

\* rgba = zeros; rgba[cumulative_gains] = yellow; rgba[cumulative_losses] = red
render(s, cg, cl) ==
  LET zero == [c \in Cells(s) |-> Transparent]
      withGains == [c \in Cells(s) |-> IF cg.a[c] THEN Yellow ELSE zero[c]]
      withLosses == [c \in Cells(s) |-> IF cl.a[c] THEN Red ELSE withGains[c]]
  IN  [h |-> s[1], w |-> s[2], a |-> withLosses]

pixel_area_km2 == 350

\* fault: every cell counted, not the true ones
area_of_size(m) == Cardinality(Cells(Shape(m))) * pixel_area_km2

\* np.sum(mask) * pixel_area_km2
area_of(m) == np_sum(m) * pixel_area_km2

\* f"{x:.2f}" of an area given in 1e-6 km2, as <<integer part, hundredths>>:
\* the nearest hundredth.  At an exact tie (x = 5000 mod 10000, a count of
\* 100 mod 200 cells) the rounding error of the double product decides, so
\* both neighbours are possible texts.
format_2f(x) ==
  LET lo == x \div 10000
      r == x % 10000
      hs == IF r < 5000 THEN {lo} ELSE IF r > 5000 THEN {lo + 1} ELSE {lo, lo + 1}
  IN  {<<hh \div 100, hh % 100>> : hh \in hs}

title_text(y, ga, la) ==
  {[year |-> y, gains |-> g, losses |-> l] : g \in format_2f(ga), l \in format_2f(la)}

\* fault: previous_arr is set once and never advanced
keep_first_previous(prev, curr) == IF prev = None THEN curr ELSE prev

\* previous_arr = current_arr
next_previous_arr(prev, curr) == curr

PcAfterLoad(n, k) == IF k < n THEN "load" ELSE IF n = 0 THEN "done" ELSE "loop"

PcAfterIter(n, k) == IF k < n THEN "loop" ELSE "done"

\* ---- main ----
MosaicIdle == m_dir = EmptyDir /\ m_pc = "idle" /\ m_ret = [raised |-> "", arr |-> None]

Init ==
  /\ listing \in {2000..(1999 + n) : n \in 0..MaxYears}
  /\ years = <<>>
  /\ pc = "start"
  /\ y_idx = 0
  /\ year_arrays = <<>>
  /\ i = 0
  /\ previous_arr = None
  /\ cumulative_gains = None
  /\ cumulative_losses = None
  /\ gains = None
  /\ losses = None
  /\ total_gains_area = 0
  /\ total_losses_area = 0
  /\ frames = <<>>
  /\ err = ""
  /\ MosaicIdle

\* years = sorted(os.listdir(...))
ListYears ==
  /\ pc = "start"
  /\ years' = sorted(listing)
  /\ pc' = PcAfterLoad(Cardinality(listing), 0)
  /\ UNCHANGED <<listing, y_idx, year_arrays, i, previous_arr, cumulative_gains,
                 cumulative_losses, gains, losses, total_gains_area,
                 total_losses_area, frames, err>>
  /\ UNCHANGED mosaicVars

InBudget(s) == s[1] * s[2] * Len(years) <= MaxCellYears

LoadFrom(d) ==
  LET r == mosaic_year_tiles(d)
  IN  IF r.raised # ""
      THEN /\ pc' = "aborted"
           /\ err' = r.raised
           /\ UNCHANGED <<y_idx, year_arrays>>
      ELSE /\ year_arrays' = Append(year_arrays, r.arr)
           /\ y_idx' = y_idx + 1
           /\ pc' = PcAfterLoad(Len(years), y_idx + 1)
           /\ UNCHANGED err

\* one pass of "for y in years: arr, transform = mosaic_year_tiles(...)",
\* on whatever the year's directory holds
LoadYear ==
  /\ pc = "load"
  /\ \E n \in 0..MaxTiles :
       IF n = 0
       THEN LoadFrom(EmptyDir)
       ELSE \E s \in Shapes :
              /\ InBudget(s)
              /\ \E f \in [Cells(s) -> Vals] : \E bands \in 1..2 :
                   LoadFrom(Dir(n, s, f, bands))
  /\ UNCHANGED <<listing, years, i, previous_arr, cumulative_gains,
                 cumulative_losses, gains, losses, total_gains_area,
                 total_losses_area, frames>>
  /\ UNCHANGED mosaicVars

\* one pass of the body of "for i, y in enumerate(years)"
Iterate ==
  /\ pc = "loop"
  /\ LET y == years[i + 1]
         current_arr == year_arrays[i + 1]
         s == Shape(current_arr)
         cl0 == IF cumulative_losses = None THEN zeros_like(current_arr) ELSE cumulative_losses
         cg0 == IF cumulative_losses = None THEN zeros_like(current_arr) ELSE cumulative_gains
         compare == previous_arr # None
         g == gains_of(previous_arr, current_arr)
         l == losses_of(previous_arr, current_arr)
     IN  IF compare /\ ~Broadcastable(Shape(previous_arr), s)
         THEN \* (prev == 0) & (curr == 1) raises ValueError
              /\ pc' = "aborted" /\ err' = "ValueError"
              /\ cumulative_gains' = cg0 /\ cumulative_losses' = cl0
              /\ UNCHANGED <<gains, losses, total_gains_area, total_losses_area,
                             frames, previous_arr, i>>
         ELSE IF compare /\ Shape(g) # Shape(cg0)
         THEN \* cumulative_gains[gains] = True raises IndexError
              /\ pc' = "aborted" /\ err' = "IndexError"
              /\ cumulative_gains' = cg0 /\ cumulative_losses' = cl0
              /\ gains' = g /\ losses' = l
              /\ UNCHANGED <<total_gains_area, total_losses_area, frames,
                             previous_arr, i>>
         ELSE LET cg == IF compare THEN mask_assign(cg0, g) ELSE cg0
                  cl == IF compare THEN mask_assign(cl0, l) ELSE cl0
              IN  /\ cumulative_gains' = cg /\ cumulative_losses' = cl
                  /\ gains' = (IF compare THEN g ELSE gains)
                  /\ losses' = (IF compare THEN l ELSE losses)
                  /\ IF Shape(cg) # s
                     THEN \* rgba[cumulative_gains] = ... raises IndexError
                          /\ pc' = "aborted" /\ err' = "IndexError"
                          /\ UNCHANGED <<total_gains_area, total_losses_area,
                                         frames, previous_arr, i>>
                     ELSE /\ total_gains_area' = area_of(cg)
                          /\ total_losses_area' = area_of(cl)
                          /\ \E t \in title_text(y, area_of(cg), area_of(cl)) :
                               frames' = Append(frames,
                                 [y |-> y, rgba |-> render(s, cg, cl), title |-> t])
                          /\ previous_arr' = next_previous_arr(previous_arr, current_arr)
                          /\ i' = i + 1
                          /\ pc' = PcAfterIter(Len(years), i + 1)
                          /\ UNCHANGED err
  /\ UNCHANGED <<listing, years, y_idx, year_arrays>>
  /\ UNCHANGED mosaicVars

Next == ListYears \/ LoadYear \/ Iterate

Spec == Init /\ [][Next]_vars

\* ---- mosaic_year_tiles on its own, applied to every directory ----
MainIdle ==
  /\ listing = {} /\ years = <<>> /\ pc = "idle" /\ y_idx = 0
  /\ year_arrays = <<>> /\ i = 0 /\ previous_arr = None
  /\ cumulative_gains = None /\ cumulative_losses = None
  /\ gains = None /\ losses = None
  /\ total_gains_area = 0 /\ total_losses_area = 0
  /\ frames = <<>> /\ err = ""

InitMosaic ==
  /\ MainIdle
  /\ \E n \in 0..MaxTiles :
       IF n = 0
       THEN m_dir = EmptyDir
       ELSE \E s \in Shapes : \E f \in [Cells(s) -> Vals] : \E bands \in 1..2 :
              m_dir = Dir(n, s, f, bands)
  /\ m_pc = "call"
  /\ m_ret = [raised |-> "", arr |-> None]

CallMosaic ==
  /\ m_pc = "call"
  /\ m_ret' = mosaic_year_tiles(m_dir)
  /\ m_pc' = "returned"
  /\ UNCHANGED m_dir
  /\ UNCHANGED mainVars

NextMosaic == CallMosaic

SpecMosaic == InitMosaic /\ [][NextMosaic]_vars

\* ---- properties ----
\* i years have been processed and their frames saved
Processed == pc \in {"loop", "done"} /\ i >= 1

At(k, c) == year_arrays[k].a[c]

Grid2x2(a, b, c, d) ==
  [h |-> 2, w |-> 2,
   a |-> [p \in Cells(<<2, 2>>) |->
            IF p = <<1, 1>> THEN a ELSE IF p = <<1, 2>> THEN b
            ELSE IF p = <<2, 1>> THEN c ELSE d]]

\* C1: for consecutive grids A (previous) and B (current) of the same shape,
\* a cell is marked gained iff A=0 and B=1 there, marked lost iff A=1 and
\* B=0 there, and never marked both in the same transition.
C1_Transition ==
  (Processed /\ i >= 2 /\ Shape(year_arrays[i - 1]) = Shape(year_arrays[i]))
    => /\ Shape(gains) = Shape(year_arrays[i])
       /\ Shape(losses) = Shape(year_arrays[i])
       /\ \A c \in Cells(Shape(year_arrays[i])) :
            /\ gains.a[c] <=> (At(i - 1, c) = 0 /\ At(i, c) = 1)
            /\ losses.a[c] <=> (At(i - 1, c) = 1 /\ At(i, c) = 0)
            /\ ~(gains.a[c] /\ losses.a[c])

C1_Witness ==
  /\ Processed /\ i >= 2
  /\ \E c, d, e \in Cells(Shape(year_arrays[i])) :
       /\ gains.a[c] /\ losses.a[d]
       /\ At(i - 1, e) = 1 /\ At(i, e) = 1 /\ ~gains.a[e] /\ ~losses.a[e]

\* C2: the cumulative gain mask and the cumulative loss mask are monotone:
\* no step turns a true cell false, so the count of true cells of each mask
\* never decreases.
C2_Monotone ==
  [][(cumulative_gains # None) =>
       /\ Shape(cumulative_gains') = Shape(cumulative_gains)
       /\ Shape(cumulative_losses') = Shape(cumulative_losses)
       /\ \A c \in Cells(Shape(cumulative_gains)) :
            /\ cumulative_gains.a[c] => cumulative_gains'.a[c]
            /\ cumulative_losses.a[c] => cumulative_losses'.a[c]
       /\ np_sum(cumulative_gains') >= np_sum(cumulative_gains)
       /\ np_sum(cumulative_losses') >= np_sum(cumulative_losses)]_vars

C2_Witness ==
  /\ Processed /\ i >= 4
  /\ \E c, d \in Cells(Shape(cumulative_gains)) :
       /\ At(1, c) = 0 /\ At(2, c) = 1 /\ At(3, c) = 1 /\ At(4, c) = 1
       /\ cumulative_gains.a[c]
       /\ At(1, d) = 1 /\ At(2, d) = 0 /\ At(3, d) = 0 /\ At(4, d) = 0
       /\ cumulative_losses.a[d]

\* C3: after processing year i, the gain mask is true at a cell iff some
\* consecutive pair (j-1, j), j <= i, went 0 -> 1 there, and the loss mask
\* iff some such pair went 1 -> 0; for the grids 2000=[[0,0],[0,0]],
\* 2001=[[1,0],[0,0]], 2002=[[1,0],[1,1]] the gain mask has 1 true cell
\* after 2001, 3 after 2002, and the loss mask none throughout.
Scenario ==
  /\ years = <<2000, 2001, 2002>>
  /\ year_arrays = <<Grid2x2(0, 0, 0, 0), Grid2x2(1, 0, 0, 0), Grid2x2(1, 0, 1, 1)>>

C3_AnyPairSoFar ==
  /\ Processed =>
       \A c \in Cells(Shape(year_arrays[1])) :
         /\ cumulative_gains.a[c] <=>
              \E j \in 2..i : At(j - 1, c) = 0 /\ At(j, c) = 1
         /\ cumulative_losses.a[c] <=>
              \E j \in 2..i : At(j - 1, c) = 1 /\ At(j, c) = 0
  /\ (Processed /\ Scenario) =>
       /\ i = 1 => np_sum(cumulative_gains) = 0
       /\ i = 2 => np_sum(cumulative_gains) = 1
       /\ i = 3 => np_sum(cumulative_gains) = 3
       /\ np_sum(cumulative_losses) = 0

C3_Witness == Processed /\ Scenario /\ i = 3 /\ np_sum(cumulative_gains) = 3

\* C4: for the first year processed, whatever its grid holds, no comparison
\* is made, both cumulative masks are all-false with the first mosaic's
\* shape, and both areas of that year's frame are zero.
C4_FirstYear ==
  (Processed /\ i = 1) =>
    /\ gains = None /\ losses = None
    /\ cumulative_gains = ConstGrid(Shape(year_arrays[1]), FALSE)
    /\ cumulative_losses = ConstGrid(Shape(year_arrays[1]), FALSE)
    /\ total_gains_area = 0 /\ total_losses_area = 0
    /\ Len(frames) = 1
    /\ frames[1].title = [year |-> years[1], gains |-> <<0, 0>>, losses |-> <<0, 0>>]
    /\ \A c \in Cells(Shape(year_arrays[1])) : frames[1].rgba.a[c] = Transparent

C4_Witness ==
  /\ Processed /\ i = 1 /\ Len(frames) = 1
  /\ \A c \in Cells(Shape(year_arrays[1])) : At(1, c) = 1

\* C5: a cell gained in year N and lost in year N+1 has the loss color in
\* the frame of year N+1 and of every later year, also when it is gained
\* again; in every frame a cell true in both cumulative masks is red.
C5_LossOverGain ==
  /\ \A k \in 1..Len(frames) : \A c \in Cells(Shape(frames[k].rgba)) :
       (\E n \in 2..(k - 1) :
          At(n - 1, c) = 0 /\ At(n, c) = 1 /\ At(n + 1, c) = 0)
         => frames[k].rgba.a[c] = Red
  /\ Processed =>
       \A c \in Cells(Shape(frames[i].rgba)) :
         (cumulative_gains.a[c] /\ cumulative_losses.a[c])
           => frames[i].rgba.a[c] = Red

C5_Witness ==
  /\ Len(frames) = 4
  /\ \E c \in Cells(Shape(frames[4].rgba)) :
       /\ At(1, c) = 0 /\ At(2, c) = 1 /\ At(3, c) = 0 /\ At(4, c) = 1
       /\ frames[3].rgba.a[c] = Red /\ frames[4].rgba.a[c] = Red

\* C6: for a directory with zero .tif files mosaic_year_tiles raises
\* FileNotFoundError and returns no grid; for a directory with at least one
\* tile file it does not raise it.
C6_NotFound ==
  (m_pc = "returned") =>
    /\ m_dir.tifs = 0 => (m_ret.raised = "FileNotFoundError" /\ m_ret.arr = None)
    /\ m_dir.tifs >= 1 => (m_ret.raised # "FileNotFoundError" /\ m_ret.arr # None)

C6_Witness == m_pc = "returned" /\ m_dir.tifs = 0 /\ m_ret.raised = "FileNotFoundError"

\* C7: in every frame the area of each cumulative mask is (count of true
\* cells) x 0.000350 km2, i.e. 350 x count in 1e-6 km2, shown rounded to two
\* decimals; a cell true in both masks is counted in both totals.
Rounds2(text, area) ==
  LET shown == (text[1] * 100 + text[2]) * 10000
  IN  text[2] \in 0..99 /\ shown - area <= 5000 /\ area - shown <= 5000

AllLoaded == pc \notin {"start", "load"} /\ Len(year_arrays) = Len(years)

ShapesMatch == \A k \in 1..Len(year_arrays) : Shape(year_arrays[k]) = Shape(year_arrays[1])

C9_EagerLoad ==
  /\ (frames # <<>> \/ i > 0 \/ cumulative_gains # None) => AllLoaded
  /\ pc = "load" => (Len(year_arrays) = y_idx /\ y_idx < Len(years))
  /\ err = "FileNotFoundError" => (pc = "aborted" /\ frames = <<>> /\ i = 0)
  /\ (AllLoaded /\ ShapesMatch) => pc # "aborted"
  /\ Len(frames) = i
  /\ \A k \in 1..Len(frames) : frames[k].y = years[k]
  /\ \A k \in 1..(Len(frames) - 1) : frames[k].y < frames[k + 1].y
  /\ pc = "done" => (Len(frames) = Len(years) /\ Len(years) = Cardinality(listing))

C9_Witness ==
  /\ pc = "done" /\ Len(frames) = 3
  /\ frames[1].y = 2000 /\ frames[2].y = 2001 /\ frames[3].y = 2002

\* a year directory in the middle of the sorted order had no tiles
C9_AbortWitness ==
  /\ pc = "aborted" /\ err = "FileNotFoundError"
  /\ Len(year_arrays) = 1 /\ Len(years) = 3 /\ frames = <<>>

\* C10: after processing any year of same-shape grids, a cell with gain
\* true and loss false is 1 in the current year, a cell with loss true and
\* gain false is 0, and a cell with both false has its first-year value.
C10_MasksVsCurrent ==
  Processed =>
    \A c \in Cells(Shape(year_arrays[i])) :
      /\ (cumulative_gains.a[c] /\ ~cumulative_losses.a[c]) => At(i, c) = 1
      /\ (cumulative_losses.a[c] /\ ~cumulative_gains.a[c]) => At(i, c) = 0
      /\ (~cumulative_gains.a[c] /\ ~cumulative_losses.a[c]) => At(i, c) = At(1, c)

C10_Witness ==
  /\ Processed /\ i = 3
  /\ \E c, d, e, f \in Cells(Shape(year_arrays[3])) :
       /\ cumulative_gains.a[c] /\ ~cumulative_losses.a[c] /\ At(2, c) = 1
       /\ cumulative_losses.a[d] /\ ~cumulative_gains.a[d] /\ At(2, d) = 0
       /\ ~cumulative_gains.a[e] /\ ~cumulative_losses.a[e] /\ At(1, e) = 1
       /\ ~cumulative_gains.a[f] /\ ~cumulative_losses.a[f] /\ At(1, f) = 0

====
